---------------------------- MODULE Spec2Model ----------------------------
(***************************************************************************)
(* The chat client of LegalMultiAgentSystem.js: the artifact extractor     *)
(* (extractArtifacts), the table formatter (parseMarkdownTable) and the    *)
(* message reconciler (the WebSocket handlers, sendMessage and             *)
(* createNewSession) as a state machine.                                   *)
(*                                                                         *)
(* Text is a TLA+ string; Len, \o and SubSeq work on it character by       *)
(* character.  SANY cannot lex a backtick inside a string literal, so the  *)
(* backtick character is written "~" throughout: BT is the backtick and    *)
(* Fence the triple-backtick fence.  No text of the model holds a real     *)
(* tilde.                                                                  *)
(***************************************************************************)
EXTENDS Integers, Sequences, FiniteSets, TLC

---------------------------------------------------------------------------
(* String primitives of the JavaScript runtime.                            *)

BT == "~"
Fence == BT \o BT \o BT

Char(s, i) == SubSeq(s, i, i)

\* s.substring(i-1, j): the characters i..j, 1-based and inclusive
Slice(s, i, j) == IF i > j THEN "" ELSE SubSeq(s, i, j)

StartsWithAt(s, i, p) ==
  /\ i + Len(p) - 1 <= Len(s)
  /\ Slice(s, i, i + Len(p) - 1) = p

\* the least position of a set of positions, or none when it is empty
MinOf(S, none) == IF S = {} THEN none ELSE CHOOSE j \in S : \A k \in S : j <= k

\* the greatest position of a set of positions, or none when it is empty
MaxOf(S, none) == IF S = {} THEN none ELSE CHOOSE j \in S : \A k \in S : j >= k

\* s.indexOf(p, from-1) + 1: the first position >= from where p stands, or 0
IndexOf(s, p, from) ==
  MinOf({k \in from..(Len(s) - Len(p) + 1) : StartsWithAt(s, k, p)}, 0)

\* s with the n characters from position i on replaced by r; s when i is 0
ReplaceAt(s, i, n, r) ==
  IF i = 0 THEN s ELSE Slice(s, 1, i - 1) \o r \o Slice(s, i + n, Len(s))

\* s.replace(p, r) with a string pattern: the first occurrence only
ReplaceFirst(s, p, r) == ReplaceAt(s, IndexOf(s, p, 1), Len(p), r)

LowerCase == "abcdefghijklmnopqrstuvwxyz"
UpperCase == "ABCDEFGHIJKLMNOPQRSTUVWXYZ"
Digits == "0123456789"

CharsOf(s) == {Char(s, i) : i \in 1..Len(s)}

\* the regular expression classes \w, \s and the complement of "."
WordChar == CharsOf(LowerCase) \cup CharsOf(UpperCase) \cup CharsOf(Digits) \cup {"_"}
WhiteSpace == {" ", "\t", "\n", "\r"}
LineTerminator == {"\n", "\r"}

\* the first position >= i whose character is not in class (Len(s)+1 if none)
SpanEnd(s, i, class) ==
  IF i > Len(s) THEN i
  ELSE MinOf({k \in i..Len(s) : Char(s, k) \notin class}, Len(s) + 1)

\* the first position >= i whose character is in class (Len(s)+1 if none)
FirstIn(s, i, class) ==
  IF i > Len(s) THEN i
  ELSE MinOf({k \in i..Len(s) : Char(s, k) \in class}, Len(s) + 1)

\* the last position <= i whose character is not in class (0 if none)
SpanStart(s, i, class) ==
  MaxOf({k \in 1..i : Char(s, k) \notin class}, 0)

\* String.prototype.trim
Trim(s) == Slice(s, SpanEnd(s, 1, WhiteSpace), SpanStart(s, Len(s), WhiteSpace))

\* the characters of s at the positions lo..hi that are in keep, in order
RECURSIVE KeepChars(_, _, _, _)
KeepChars(s, keep, lo, hi) ==
  IF lo > hi THEN ""
  ELSE IF lo = hi THEN (IF lo \in keep THEN Char(s, lo) ELSE "")
  ELSE LET mid == (lo + hi) \div 2
       IN  KeepChars(s, keep, lo, mid) \o KeepChars(s, keep, mid + 1, hi)

\* s.split(sep) for a one-character separator
Split(s, sep) ==
  LET P == {i \in 1..Len(s) : Char(s, i) = sep}
      n == Cardinality(P)
      pos(k) == IF k = 0 THEN 0
                ELSE IF k = n + 1 THEN Len(s) + 1
                ELSE CHOOSE q \in P : Cardinality({r \in P : r < q}) = k - 1
  IN  [k \in 1..(n + 1) |-> Slice(s, pos(k - 1) + 1, pos(k) - 1)]

\* the elements of seq at the positions of keep, in order
Pick(seq, keep) ==
  [j \in 1..Cardinality(keep) |->
     seq[CHOOSE i \in keep : Cardinality({k \in keep : k < i}) = j - 1]]

\* rows.filter(row => row.trim())
FilterNonBlank(rows) == Pick(rows, {i \in 1..Len(rows) : Trim(rows[i]) # ""})

UpperOf(c) ==
  IF \E i \in 1..Len(LowerCase) : Char(LowerCase, i) = c
  THEN Char(UpperCase, CHOOSE i \in 1..Len(LowerCase) : Char(LowerCase, i) = c)
  ELSE c

\* case folding of the /i flag
RECURSIVE ToUpperCase(_)
ToUpperCase(s) ==
  IF s = "" THEN "" ELSE UpperOf(Char(s, 1)) \o ToUpperCase(Slice(s, 2, Len(s)))

\* the result of a failed RegExp exec (null)
NoMatch == [index |-> 0]

\* the leftmost of the matches found at the positions tried, or NoMatch
Leftmost(M) ==
  IF M = {} THEN NoMatch ELSE CHOOSE m \in M : \A n \in M : m.index <= n.index


---------------------------------------------------------------------------
(* extractArtifacts: three regular expressions run over content, their     *)
(* matches replaced in remainingContent, then the clean-up.                *)

DocMinChars == 200

\* a closing that takes the last three characters of the text for a fence
\* when no fence follows
CodeCloseOrEnd(s, w) ==
  IF w <= Len(s) /\ Char(s, w) = "\n"
  THEN IF IndexOf(s, Fence, w + 1) # 0 THEN IndexOf(s, Fence, w + 1)
       ELSE IF Len(s) - 2 > w THEN Len(s) - 2 ELSE 0
  ELSE 0

\* "\n([\s\S]*?)```" at w: a newline, then the shortest text up to the next
\* fence; the position of that fence, or 0
CodeClose(s, w) ==
  IF w <= Len(s) /\ Char(s, w) = "\n" THEN IndexOf(s, Fence, w + 1) ELSE 0

\* the match that opens at i, with the newline at w and the closing fence at k
CodeMatch(s, i, w, k) ==
  IF StartsWithAt(s, i, Fence) /\ k # 0
  THEN [index |-> i, last |-> k + 2,
        m1 |-> Slice(s, i + 3, w - 1), m2 |-> Slice(s, w + 1, k - 1)]
  ELSE NoMatch

CodeTagged(s, i, w) == CodeMatch(s, i, w, CodeClose(s, w))

\* /```(\w+)?\n([\s\S]*?)```/ anchored at i: the fence, the longest run of word
\* characters, a newline, then the shortest text up to the next fence
codeBlockRegexAt(s, i) == CodeTagged(s, i, SpanEnd(s, i + 3, WordChar))

\* codeBlockRegex.exec(content) with lastIndex = from - 1
codeBlockRegex(s, from) ==
  Leftmost({codeBlockRegexAt(s, i) : i \in from..Len(s)} \ {NoMatch})

\* an artifact whose content is the inner text as matched
CodeArtifactUntrimmed(m) ==
  [type |-> "code",
   language |-> IF m.m1 # "" THEN m.m1 ELSE "text",
   content |-> m.m2,
   title |-> (IF m.m1 # "" THEN m.m1 ELSE "Code") \o " Block"]

CodeArtifact(m) ==
  [type |-> "code",
   language |-> IF m.m1 # "" THEN m.m1 ELSE "text",
   content |-> Trim(m.m2),
   title |-> (IF m.m1 # "" THEN m.m1 ELSE "Code") \o " Block"]

RECURSIVE CodePass(_, _, _)

\* a turn of the body that puts the artifact at the front of the list
CodeStepPrepend(content, acc, m) ==
  IF m.index = 0 THEN acc
  ELSE CodePass(content, m.last + 1,
         [artifacts |-> <<CodeArtifact(m)>> \o acc.artifacts,
          remainingContent |->
            ReplaceFirst(acc.remainingContent, Slice(content, m.index, m.last), "")])

\* one test of the loop condition and, for a match m, one turn of the body
CodeStep(content, acc, m) ==
  IF m.index = 0 THEN acc
  ELSE CodePass(content, m.last + 1,
         [artifacts |-> Append(acc.artifacts, CodeArtifact(m)),
          remainingContent |->
            ReplaceFirst(acc.remainingContent, Slice(content, m.index, m.last), "")])

\* the while loop of the code pass; acc is [artifacts, remainingContent]
CodePass(content, from, acc) == CodeStep(content, acc, codeBlockRegex(content, from))

\* "\|.*\|" at i: a pipe at i and a second pipe before the line ends
HasRow(s, i) ==
  /\ i <= Len(s)
  /\ Char(s, i) = "|"
  /\ IndexOf(Slice(s, i + 1, FirstIn(s, i + 1, LineTerminator) - 1), "|", 1) # 0

\* one "\|.*\|[\s\S]*?\n" anchored at i: a pipe at i, a second pipe before the
\* line ends, then up to the first newline; the position of that newline, or 0
TableRowEnd(s, i) == IF HasRow(s, i) THEN IndexOf(s, "\n", i) ELSE 0

RECURSIVE TableRowsEnd(_, _)

RowsAfter(s, p, e) == IF e = 0 THEN p - 1 ELSE TableRowsEnd(s, e + 1)

\* the greedy "(?:\|.*\|[\s\S]*?\n)*" from p: the last position it consumes
TableRowsEnd(s, p) == RowsAfter(s, p, TableRowEnd(s, p))

\* the match that opens at i, its first row ending at e
TableMatch(s, i, e) ==
  IF e = 0 THEN NoMatch ELSE [index |-> i, last |-> TableRowsEnd(s, e + 1)]

tableRegexAt(s, i) == TableMatch(s, i, TableRowEnd(s, i))

\* tableRegex.exec(content) with lastIndex = from - 1
tableRegex(s, from) ==
  Leftmost({tableRegexAt(s, i) : i \in from..Len(s)} \ {NoMatch})

TableMarker == "[Table shown in artifact]"
DocumentMarker == "[Document shown in artifact]"

\* rows of a matched table: split on newline, blank rows dropped
TableRows(tableContent) == FilterNonBlank(Split(tableContent, "\n"))

\* the body of the table loop for match[0] and match[1].trim()
TableFound(acc, match0, tableContent) ==
  IF Len(TableRows(tableContent)) >= 2
  THEN [artifacts |-> Append(acc.artifacts,
           [type |-> "table", content |-> tableContent, title |-> "Data Table"]),
        remainingContent |-> ReplaceFirst(acc.remainingContent, match0, TableMarker)]
  ELSE acc

RECURSIVE TablePass(_, _, _)

\* one test of the loop condition and, for a match m, one turn of the body
TableStep(content, acc, m) ==
  IF m.index = 0 THEN acc
  ELSE TablePass(content, m.last + 1,
         TableFound(acc, Slice(content, m.index, m.last),
                    Trim(Slice(content, m.index, m.last))))

\* the while loop of the table pass: the regex runs over content, the
\* replacement is made in remainingContent
TablePass(content, from, acc) == TableStep(content, acc, tableRegex(content, from))

\* the alternation without its last word
KeywordsWithoutDocument == <<"CONTRACT", "AGREEMENT", "MEMO", "POLICY", "PROCEDURE">>

Keywords == <<"CONTRACT", "AGREEMENT", "MEMO", "POLICY", "PROCEDURE", "DOCUMENT">>

\* a keyword at i with more than DocMinChars characters after it
KeywordAtStrict(s, i) ==
  \E k \in 1..Len(Keywords) :
     /\ Len(s) - (i + Len(Keywords[k]) - 1) > DocMinChars
     /\ ToUpperCase(Slice(s, i, i + Len(Keywords[k]) - 1)) = Keywords[k]

\* a keyword (any case) at i with at least DocMinChars characters after it
KeywordAt(s, i) ==
  \E k \in 1..Len(Keywords) :
     /\ Len(s) - (i + Len(Keywords[k]) - 1) >= DocMinChars
     /\ ToUpperCase(Slice(s, i, i + Len(Keywords[k]) - 1)) = Keywords[k]

\* docRegex.exec(content): the first keyword position that matches, the match
\* running to the end of content; 0 when there is none
docRegex(s, from) == MinOf({k \in from..Len(s) : KeywordAt(s, k)}, 0)

\* the body of the if for match[0]
DocFound(acc, match0) ==
  [artifacts |-> Append(acc.artifacts,
      [type |-> "document", content |-> match0, title |-> "Legal Document"]),
   remainingContent |-> ReplaceFirst(acc.remainingContent, match0, DocumentMarker)]

DocStep(content, acc, i) ==
  IF i = 0 THEN acc ELSE DocFound(acc, Slice(content, i, Len(content)))

DocPass(content, acc) == DocStep(content, acc, docRegex(content, 1))

\* .replace(/\n{3,}/g, '\n\n'): of every run of three or more newlines the
\* first two are kept
CollapseNewlines(s) ==
  KeepChars(s, {i \in 1..Len(s) :
                  ~(i >= 3 /\ Char(s, i) = "\n" /\ Char(s, i - 1) = "\n"
                           /\ Char(s, i - 2) = "\n")},
            1, Len(s))

\* the white space after c ends at q, the last line terminator in it
TailAt(c, q) == IF q > c THEN q - 1 ELSE 0

\* the white space after c ends before r
TailFrom(s, c, r) ==
  IF r > Len(s) THEN Len(s)
  ELSE TailAt(c, SpanStart(s, r - 1, WhiteSpace \ LineTerminator))

\* "\s*$" after the closing bracket at c (flag m): the last position consumed,
\* or 0 when no position of the white space after c is the end of a line
PlaceholderTail(s, c) == TailFrom(s, c, SpanEnd(s, c + 1, WhiteSpace))

CloseAt(s, k) == IF k = 0 THEN 0 ELSE PlaceholderTail(s, k)

\* the closing brackets of c..eol-1 tried nearest first
CloseBefore(s, c, eol) ==
  CloseAt(s, MinOf({j \in c..(eol - 1) :
                      Char(s, j) = "]" /\ PlaceholderTail(s, j) # 0}, 0))

\* "\[.*?\]\s*$" with the opening bracket before c, trying the closing brackets
\* of the line from c on, nearest first: the last position consumed, or 0
PlaceholderClose(s, c) == CloseBefore(s, c, FirstIn(s, c, LineTerminator))

\* the line starts at p and its white space ends before b
OpenAt(s, p, b) ==
  IF /\ (p = 1 \/ Char(s, p - 1) \in LineTerminator)
     /\ b <= Len(s) /\ Char(s, b) = "["
  THEN PlaceholderClose(s, b + 1)
  ELSE 0

\* /^\s*\[.*?\]\s*$/m anchored at p: the last position of the match, or 0
PlaceholderAt(s, p) == OpenAt(s, p, SpanEnd(s, p, WhiteSpace))

RECURSIVE RemovePlaceholders(_, _)

\* the text from p on with the match at i, and those after it, removed
RemoveAt(s, p, i) ==
  IF i = 0 THEN Slice(s, p, Len(s))
  ELSE Slice(s, p, i - 1) \o RemovePlaceholders(s, PlaceholderAt(s, i) + 1)

\* .replace(/^\s*\[.*?\]\s*$/gm, ''): the text from p on with every match
\* removed, the matches found left to right, each search starting after the
\* match before it
RemovePlaceholders(s, p) ==
  RemoveAt(s, p, MinOf({k \in p..Len(s) : PlaceholderAt(s, k) # 0}, 0))

\* a clean-up that leaves the placeholder lines in
CleanUpKeepsPlaceholders(s) == Trim(CollapseNewlines(s))

CleanUp(s) == Trim(RemovePlaceholders(CollapseNewlines(s), 1))

TableSentence == "I've created a table with the requested information."
CodeSentence == "I've created the code for you."
DocumentSentence == "I've prepared the document as requested."

HasType(artifacts, t) == \E i \in 1..Len(artifacts) : artifacts[i].type = t

\* a default message that looks for a code artifact first
FallbackCodeFirst(artifacts, remainingContent) ==
  IF remainingContent = "" /\ Len(artifacts) > 0
  THEN IF HasType(artifacts, "code") THEN CodeSentence
       ELSE IF HasType(artifacts, "table") THEN TableSentence
       ELSE IF HasType(artifacts, "document") THEN DocumentSentence
       ELSE remainingContent
  ELSE remainingContent

\* no default message: the remainder is returned as it is
FallbackNone(artifacts, remainingContent) == remainingContent

\* the default message when everything was removed
Fallback(artifacts, remainingContent) ==
  IF remainingContent = "" /\ Len(artifacts) > 0
  THEN IF HasType(artifacts, "table") THEN TableSentence
       ELSE IF HasType(artifacts, "code") THEN CodeSentence
       ELSE IF HasType(artifacts, "document") THEN DocumentSentence
       ELSE remainingContent
  ELSE remainingContent

\* the clean-up, the default message and the return, after the three passes
Result(passes) ==
  [artifacts |-> passes.artifacts,
   conversationalContent |-> Fallback(passes.artifacts, CleanUp(passes.remainingContent))]

\* the code pass, the table pass and the document pass, in that order
Passes(content) ==
  DocPass(content,
    TablePass(content, 1,
      CodePass(content, 1, [artifacts |-> <<>>, remainingContent |-> content])))

extractArtifacts(content) == Result(Passes(content))


---------------------------------------------------------------------------
(* parseMarkdownTable: the rows and cells the generated table markup holds *)
(* (one <th> per header cell, one <tr> of <td> per data row), or the       *)
(* content returned unchanged when it is not taken for a table.            *)

Includes(s, p) == IndexOf(s, p, 1) # 0

TrimAll(parts) == [i \in 1..Len(parts) |-> Trim(parts[i])]

NonEmpty(cells) == Pick(cells, {i \in 1..Len(cells) : cells[i] # ""})

\* row.split('|').map(cell => cell.trim()).filter(cell => cell)
Cells(row) == NonEmpty(TrimAll(Split(row, "|")))

\* the table of the rows, or the content when they are not taken for a table
TableOf(content, rows) ==
  IF Len(rows) < 2 THEN [isTable |-> FALSE, text |-> content]
  ELSE IF ~Includes(rows[1], "|") \/ ~Includes(rows[2], "-")
       THEN [isTable |-> FALSE, text |-> content]
  ELSE [isTable |-> TRUE,
        headers |-> Cells(rows[1]),
        data |-> [i \in 1..(Len(rows) - 2) |-> Cells(rows[i + 2])]]

parseMarkdownTable(content) ==
  TableOf(content, FilterNonBlank(Split(Trim(content), "\n")))

---------------------------------------------------------------------------
(* The component state.                                                    *)

VARIABLES
  messages,       \* useState([]): the message list
  inputMessage,   \* useState(''): the text box
  isConnected,    \* useState(false)
  isLoading,      \* useState(false): a turn is in flight
  sessionId,      \* useState(`session-${Date.now()}`): the clock reading in it
  sockets,        \* every WebSocket created so far: its readyState
  wsRef,          \* wsRef.current: an index of sockets, 0 for null
  now,            \* the last reading of Date.now()
  fragCount,      \* history: content events delivered so far
  ended,          \* history: "done" was processed for the last message of the list
  sentSinceEnd,   \* history: ws.send calls since the last "done"/"error"
  sinceBreak,     \* history: the fragments received since a message was last
                  \*   appended by sendMessage or an error, or the list was
                  \*   cleared, and the length of the list at that time
  script,         \* stream runs: the fragments of one response
  runA, runB,     \* stream runs: two message lists fed the text of script
  restA, restB,   \* stream runs: the text still to be fed to runA, and the
                  \*   fragments still to be fed to runB
  cutsDiffer,     \* history: runA got a fragment that ends where none of the
                  \*   script does
  argument,       \* extraction runs: the text one call of extractArtifacts is given
  called,         \* extraction runs: the call has returned
  working,        \* extraction runs: remainingContent after the clean-up
  extracted,      \* extraction runs: the value returned
  formatted       \* extraction runs: the artifact of the value returned that
                  \*   was formatted for display (0: none yet), and its table

appVars == <<messages, inputMessage, isConnected, isLoading, sessionId, sockets,
             wsRef, now, fragCount, ended, sentSinceEnd, sinceBreak>>

runVars == <<script, runA, runB, restA, restB, cutsDiffer>>

exVars == <<argument, called, working, extracted, formatted>>

vars == <<appVars, runVars, exVars>>

MaxMessages == 3
MaxFrags == 2
MaxClock == 2

\* the inbound content fragments, error texts and typed inputs tried
Fragments == {"Hi ", "|a|b|\n"}
ErrorTexts == {"boom"}
Inputs == {"hi", " "}

\* the fragments the backend sends with its thinking, an agent name and a
\* time of its own
Tagged == {"|a|b|\n"}

\* the inbound events: exactly one of done / error / content is populated;
\* thinking, agent and timestamp are "" when the backend leaves them out
ContentEvents ==
  {[done |-> FALSE, error |-> "", content |-> f,
    thinking |-> IF f \in Tagged THEN "Looking it up" ELSE "",
    agent |-> IF f \in Tagged THEN "Research Agent" ELSE "",
    timestamp |-> IF f \in Tagged THEN "2024-01-01T00:00:00Z" ELSE ""] :
      f \in Fragments}
DoneEvent ==
  [done |-> TRUE, error |-> "", content |-> "", thinking |-> "", agent |-> "", timestamp |-> ""]
ErrorEvents ==
  {[done |-> FALSE, error |-> e, content |-> "", thinking |-> "", agent |-> "", timestamp |-> ""] :
      e \in ErrorTexts}

\* a field that a message does not have is undefined, which is falsy
IsStreaming(msg) == "isStreaming" \in DOMAIN msg /\ msg.isStreaming
IsError(msg) == "isError" \in DOMAIN msg /\ msg.isError

\* a || b on strings
Or(a, b) == IF a # "" THEN a ELSE b

\* the test without isStreaming
LastIsBot(prev) == Len(prev) > 0 /\ prev[Len(prev)].isBot

\* lastMessage && lastMessage.isBot && lastMessage.isStreaming
OpenStreaming(prev) ==
  Len(prev) > 0 /\ prev[Len(prev)].isBot /\ IsStreaming(prev[Len(prev)])

\* the fields of a message that are taken from an extraction result
Classified(ex) ==
  [conversationalContent |-> ex.conversationalContent,
   artifacts |-> ex.artifacts,
   hasArtifact |-> Len(ex.artifacts) > 0]

\* an update that also takes the agent and the time of the event
UpdatedFromEvent(msg, data, updatedContent) ==
  Classified(extractArtifacts(updatedContent)) @@
    [msg EXCEPT !.content = updatedContent,
                !.agent = Or(data.agent, msg.agent),
                !.timestamp = Or(data.timestamp, msg.timestamp),
                !.thinking = Or(data.thinking, msg.thinking)]

\* { ...msg, content: updatedContent, conversationalContent, artifacts,
\*   hasArtifact, thinking: data.thinking || msg.thinking }
Updated(msg, data, updatedContent) ==
  Classified(extractArtifacts(updatedContent)) @@
    [msg EXCEPT !.content = updatedContent,
                !.thinking = Or(data.thinking, msg.thinking)]

\* the append without the extraction: the derived fields stay as they were
AppendFragmentStale(prev, data) ==
  [prev EXCEPT ![Len(prev)] =
     [@ EXCEPT !.content = @ \o data.content,
               !.thinking = Or(data.thinking, @)]]

\* the append with the extraction run over the fragment alone and its results
\* added to the earlier ones
AppendFragmentIncremental(prev, data) ==
  LET ex == extractArtifacts(data.content)
  IN  [prev EXCEPT ![Len(prev)] =
         [@ EXCEPT !.content = @ \o data.content,
                   !.conversationalContent = @ \o ex.conversationalContent,
                   !.artifacts = @ \o ex.artifacts,
                   !.hasArtifact = @ \/ Len(ex.artifacts) > 0,
                   !.thinking = Or(data.thinking, @)]]

\* the first branch of the content updater: the last message with the
\* fragment appended and the extraction rerun over the whole content
AppendFragment(prev, data) ==
  [prev EXCEPT ![Len(prev)] = Updated(@, data, @.content \o data.content)]

\* the message of the second branch
NewStreamingMessage(data, t) ==
  Classified(extractArtifacts(data.content)) @@
    [id |-> t,
     content |-> data.content,
     isBot |-> TRUE,
     agent |-> Or(data.agent, "Legal Assistant"),
     timestamp |-> Or(data.timestamp, ToString(t)),
     isStreaming |-> TRUE,
     thinking |-> data.thinking]

\* an updater that opens a message for every fragment
ContentUpdaterAlwaysNew(prev, data, t) == Append(prev, NewStreamingMessage(data, t))

\* setMessages(prev => ...) of the content branch
ContentUpdater(prev, data, t) ==
  IF OpenStreaming(prev) THEN AppendFragment(prev, data)
  ELSE Append(prev, NewStreamingMessage(data, t))

\* an error written into the list as an ordinary bot message
ErrorMessageUnflagged(data, t) ==
  [id |-> t,
   content |-> "Error: " \o data.error,
   isBot |-> TRUE,
   agent |-> "System",
   timestamp |-> ToString(t)]

\* an error written into the list as a message that is still streaming
ErrorMessageStreaming(data, t) ==
  [id |-> t,
   content |-> "Error: " \o data.error,
   isBot |-> TRUE,
   agent |-> "System",
   timestamp |-> ToString(t),
   isStreaming |-> TRUE,
   isError |-> TRUE]

ErrorMessage(data, t) ==
  [id |-> t,
   content |-> "Error: " \o data.error,
   isBot |-> TRUE,
   agent |-> "System",
   timestamp |-> ToString(t),
   isError |-> TRUE]

UserMessage(text, t) ==
  [id |-> t, content |-> text, isBot |-> FALSE, timestamp |-> ToString(t)]

SubstituteText == "I've prepared the content in the artifact below."

\* the text rendered in the bubble of a message:
\* message.conversationalContent ||
\*   (message.hasArtifact ? SubstituteText : message.content)
DisplayedText(message) ==
  IF "conversationalContent" \in DOMAIN message /\ message.conversationalContent # ""
  THEN message.conversationalContent
  ELSE IF "hasArtifact" \in DOMAIN message /\ message.hasArtifact
       THEN SubstituteText
       ELSE message.content

\* a close() that leaves the socket as it was
CloseIgnored(socks, k) == socks

\* ws.close(): a socket that is connecting or open starts closing
Close(socks, k) ==
  IF k # 0 /\ socks[k] \in {"CONNECTING", "OPEN"}
  THEN [socks EXCEPT ![k] = "CLOSING"]
  ELSE socks

\* the readings Date.now() can return after the reading now
Readings == now..MaxClock

\* no stream run is under way
RunIdle ==
  /\ script = <<>> /\ runA = <<>> /\ runB = <<>> /\ restA = "" /\ restB = <<>>
  /\ cutsDiffer = FALSE

\* no call of extractArtifacts has been made
NoResult == [artifacts |-> <<>>, conversationalContent |-> ""]

\* no artifact has been formatted
NoTable == [artifact |-> 0, table |-> [isTable |-> FALSE, text |-> ""]]

ExIdle ==
  /\ argument = "" /\ called = FALSE /\ working = "" /\ extracted = NoResult
  /\ formatted = NoTable

\* the component after its first render and effect: one socket, connecting
AppInit ==
  /\ messages = <<>>
  /\ inputMessage = ""
  /\ isConnected = FALSE
  /\ isLoading = FALSE
  /\ now = 1
  /\ sessionId = 1
  /\ sockets = <<"CONNECTING">>
  /\ wsRef = 1
  /\ fragCount = 0
  /\ ended = FALSE
  /\ sentSinceEnd = 0
  /\ sinceBreak = [text |-> "", len |-> 0]

Init ==
  /\ AppInit
  /\ RunIdle
  /\ ExIdle

\* ws.onopen
OnOpen(k) ==
  /\ sockets[k] = "CONNECTING"
  /\ sockets' = [sockets EXCEPT ![k] = "OPEN"]
  /\ isConnected' = TRUE
  /\ UNCHANGED <<messages, inputMessage, isLoading, sessionId, wsRef, now,
                 fragCount, ended, sentSinceEnd, sinceBreak>>
  /\ UNCHANGED <<runVars, exVars>>

\* a "done" that leaves the loading flag as it is
OnDoneKeepsLoading(k) ==
  /\ sockets[k] = "OPEN"
  /\ ended' = OpenStreaming(messages)
  /\ sentSinceEnd' = 0
  /\ UNCHANGED <<messages, inputMessage, isConnected, isLoading, sessionId, sockets,
                 wsRef, now, fragCount, sinceBreak>>
  /\ UNCHANGED <<runVars, exVars>>

\* ws.onmessage, data.done
OnDone(k) ==
  /\ sockets[k] = "OPEN"
  /\ isLoading' = FALSE
  /\ ended' = OpenStreaming(messages)
  /\ sentSinceEnd' = 0
  /\ UNCHANGED <<messages, inputMessage, isConnected, sessionId, sockets, wsRef, now,
                 fragCount, sinceBreak>>
  /\ UNCHANGED <<runVars, exVars>>

\* ws.onmessage, data.error
OnErrorEvent(k, data, t) ==
  /\ sockets[k] = "OPEN"
  /\ Len(messages) < MaxMessages
  /\ messages' = Append(messages, ErrorMessage(data, t))
  /\ isLoading' = FALSE
  /\ now' = t
  /\ sentSinceEnd' = 0
  /\ sinceBreak' = [text |-> "", len |-> Len(messages')]
  /\ ended' = FALSE
  /\ UNCHANGED <<inputMessage, isConnected, sessionId, sockets, wsRef, fragCount>>
  /\ UNCHANGED <<runVars, exVars>>

\* ws.onmessage, data.content; Date.now() is read only for a new message
OnContent(k, data, t) ==
  /\ sockets[k] = "OPEN"
  /\ fragCount < MaxFrags
  /\ IF OpenStreaming(messages) THEN t = now ELSE Len(messages) < MaxMessages
  /\ messages' = ContentUpdater(messages, data, t)
  /\ now' = t
  /\ fragCount' = fragCount + 1
  /\ sinceBreak' = [sinceBreak EXCEPT !.text = @ \o data.content]
  /\ UNCHANGED <<inputMessage, isConnected, isLoading, sessionId, sockets, wsRef,
                 ended, sentSinceEnd>>
  /\ UNCHANGED <<runVars, exVars>>

\* ws.onmessage with neither done nor error nor a non-empty content
OnIgnored(k) ==
  /\ sockets[k] = "OPEN"
  /\ UNCHANGED appVars
  /\ UNCHANGED <<runVars, exVars>>

\* ws.onclose: the peer or the network closes the socket, or a close() ends
OnClose(k) ==
  /\ sockets[k] # "CLOSED"
  /\ sockets' = [sockets EXCEPT ![k] = "CLOSED"]
  /\ isConnected' = FALSE
  /\ UNCHANGED <<messages, inputMessage, isLoading, sessionId, wsRef, now,
                 fragCount, ended, sentSinceEnd, sinceBreak>>
  /\ UNCHANGED <<runVars, exVars>>

\* ws.onerror: the connection fails; the browser fires error, then close
OnError(k) ==
  /\ sockets[k] # "CLOSED"
  /\ sockets' = [sockets EXCEPT ![k] = "CLOSED"]
  /\ isConnected' = FALSE
  /\ UNCHANGED <<messages, inputMessage, isLoading, sessionId, wsRef, now,
                 fragCount, ended, sentSinceEnd, sinceBreak>>
  /\ UNCHANGED <<runVars, exVars>>

\* a guard that leaves out the loading flag
SendGuardIgnoresLoading(text) == Trim(text) # "" /\ isConnected

\* !(!inputMessage.trim() || !isConnected || isLoading)
SendGuard(text) == Trim(text) # "" /\ isConnected /\ ~isLoading

\* wsRef.current && wsRef.current.readyState === WebSocket.OPEN
CanTransmit == wsRef # 0 /\ sockets[wsRef] = "OPEN"

\* the user types text (onChange: setInputMessage) and presses Enter (sendMessage)
SendMessage(text, t) ==
  \/ /\ ~SendGuard(text)
     /\ t = now
     /\ inputMessage' = text
     /\ UNCHANGED <<messages, isConnected, isLoading, sessionId, sockets,
                    wsRef, now, fragCount, ended, sentSinceEnd, sinceBreak>>
     /\ UNCHANGED <<runVars, exVars>>
  \/ /\ SendGuard(text)
     /\ Len(messages) < MaxMessages
     /\ messages' = Append(messages, UserMessage(text, t))
     /\ isLoading' = TRUE
     /\ now' = t
     /\ sentSinceEnd' = IF CanTransmit THEN sentSinceEnd + 1 ELSE sentSinceEnd
     /\ inputMessage' = ""
     /\ sinceBreak' = [text |-> "", len |-> Len(messages')]
     /\ ended' = FALSE
     /\ UNCHANGED <<isConnected, sessionId, sockets, wsRef, fragCount>>
     /\ UNCHANGED <<runVars, exVars>>

\* createNewSession, then the effect of [sessionId]: when the id changed, the
\* clean-up closes wsRef.current again and connectWebSocket opens a new socket
CreateNewSession(t) ==
  /\ sessionId' = t
  /\ now' = t
  /\ messages' = <<>>
  /\ IF t # sessionId
     THEN /\ sockets' = Append(Close(sockets, wsRef), "CONNECTING")
          /\ wsRef' = Len(sockets) + 1
     ELSE /\ sockets' = Close(sockets, wsRef)
          /\ wsRef' = wsRef
  /\ ended' = FALSE
  /\ sinceBreak' = [text |-> "", len |-> 0]
  /\ UNCHANGED <<inputMessage, isConnected, isLoading, fragCount, sentSinceEnd>>
  /\ UNCHANGED <<runVars, exVars>>

Next ==
  \/ \E k \in 1..Len(sockets) : OnOpen(k)
  \/ \E k \in 1..Len(sockets) : OnDone(k)
  \/ \E k \in 1..Len(sockets), data \in ErrorEvents, t \in Readings : OnErrorEvent(k, data, t)
  \/ \E k \in 1..Len(sockets), data \in ContentEvents, t \in Readings : OnContent(k, data, t)
  \/ \E k \in 1..Len(sockets) : OnIgnored(k)
  \/ \E k \in 1..Len(sockets) : OnClose(k)
  \/ \E k \in 1..Len(sockets) : OnError(k)
  \/ \E text \in Inputs, t \in Readings : SendMessage(text, t)
  \/ \E t \in Readings : CreateNewSession(t)

Spec == Init /\ [][Next]_vars

---------------------------------------------------------------------------
(* Turns: the backend answers the requests it was sent and sends nothing   *)
(* else; an answer arrives on the socket the request went out on.          *)

\* a request went out on socket k, the socket of the session whose list holds
\* it, and neither "done" nor an error has answered it
Awaited(k) == k = wsRef /\ sentSinceEnd > 0 /\ messages # <<>>

TurnsNext ==
  \/ \E k \in 1..Len(sockets) : OnOpen(k)
  \/ \E k \in 1..Len(sockets) : Awaited(k) /\ OnDone(k)
  \/ \E k \in 1..Len(sockets), data \in ErrorEvents, t \in Readings :
        Awaited(k) /\ OnErrorEvent(k, data, t)
  \/ \E k \in 1..Len(sockets), data \in ContentEvents, t \in Readings :
        Awaited(k) /\ OnContent(k, data, t)
  \/ \E k \in 1..Len(sockets) : OnClose(k)
  \/ \E k \in 1..Len(sockets) : OnError(k)
  \/ \E text \in Inputs, t \in Readings : SendMessage(text, t)
  \/ \E t \in Readings : CreateNewSession(t)

\* a connecting socket opens or fails, an awaited answer ends with "done"
\* while its socket stays open, and the user can always start a new session
TurnsFair ==
  /\ WF_vars(\E k \in 1..Len(sockets) : OnOpen(k))
  /\ WF_vars(\E k \in 1..Len(sockets) : Awaited(k) /\ OnDone(k))
  /\ WF_vars(\E t \in Readings : CreateNewSession(t))

SpecTurns == Init /\ [][TurnsNext]_vars /\ TurnsFair

---------------------------------------------------------------------------
(* Stream runs: the text of one response is delivered twice to a fresh     *)
(* turn, to runB in the fragments of the script and to runA cut at any     *)
(* positions, through the content updater of ws.onmessage.                 *)

TableFragment == "|A|B|\n|-|-|\n|1|2|\n"

TableScript == <<"Here is a t", "able:\n\n", TableFragment>>
FencedTableScript == <<Fence \o "js\n", "|A|B|\n|-|-|\n", Fence>>
CodeScript == <<Fence \o "js\nconst x=1;\n", Fence \o "\nDone.">>

Scripts == {TableScript, FencedTableScript, CodeScript}

RECURSIVE Concat(_)
Concat(frags) == IF frags = <<>> THEN "" ELSE Head(frags) \o Concat(Tail(frags))

ContentEvent(f) ==
  [done |-> FALSE, error |-> "", content |-> f, thinking |-> "", agent |-> "", timestamp |-> ""]

\* the positions of the text where a fragment of the script ends
Boundaries(frags) == {Len(Concat(SubSeq(frags, 1, i))) : i \in 1..Len(frags)}

\* a turn opened by an accepted send
FreshTurn == <<UserMessage("hi", 1)>>

StreamInit ==
  /\ AppInit
  /\ script \in Scripts
  /\ runA = FreshTurn /\ runB = FreshTurn
  /\ restA = Concat(script)
  /\ restB = script
  /\ cutsDiffer = FALSE
  /\ ExIdle

\* the next n characters arrive as one fragment of runA
FeedA(n) ==
  /\ n <= Len(restA)
  /\ runA' = ContentUpdater(runA, ContentEvent(Slice(restA, 1, n)), 1)
  /\ restA' = Slice(restA, n + 1, Len(restA))
  /\ cutsDiffer' = (cutsDiffer \/ Len(Concat(script)) - Len(restA') \notin Boundaries(script))
  /\ UNCHANGED <<script, runB, restB>>
  /\ UNCHANGED <<appVars, exVars>>

\* the next fragment of the script arrives in runB
FeedB ==
  /\ restB # <<>>
  /\ runB' = ContentUpdater(runB, ContentEvent(Head(restB)), 1)
  /\ restB' = Tail(restB)
  /\ UNCHANGED <<script, runA, restA, cutsDiffer>>
  /\ UNCHANGED <<appVars, exVars>>

StreamNext ==
  \/ \E n \in 1..Len(restA) : FeedA(n)
  \/ FeedB

SpecStream == StreamInit /\ [][StreamNext]_vars

---------------------------------------------------------------------------
(* Extraction runs: one call of extractArtifacts on a text.                *)

MaxPieces == 3

\* the pieces the short texts are put together from
Pieces == {Fence \o "js\n", Fence, "x\n", "|a|b|\n", "a|b\n", "|c|d|", "[n]\n", "\n"}

\* the texts of at most n pieces
RECURSIVE PieceTexts(_)
PieceTexts(n) ==
  IF n = 0 THEN {""}
  ELSE {""} \cup {p \o t : p \in Pieces, t \in PieceTexts(n - 1)}

\* one fenced block: the fence, the tag, a newline, the inner text, the fence
Fenced(tag, inner) == Fence \o tag \o "\n" \o inner \o Fence

Tags == {"", "js", "py_3"}
Inners == {"const x=1;\n", " a " \o BT \o "b" \o BT \o " ", "", "x" \o BT}

FencedTexts == {Fenced(tag, inner) : tag \in Tags, inner \in Inners}

\* n copies of s
RECURSIVE Repeat(_, _)
Repeat(s, n) ==
  IF n = 0 THEN ""
  ELSE IF n % 2 = 0 THEN Repeat(s \o s, n \div 2)
  ELSE s \o Repeat(s \o s, n \div 2)

\* n characters of the filler f
Pad(f, n) == Slice(Repeat(f, n), 1, n)

DocWords == {"CONTRACT", "AGREEMENT", "MEMO", "POLICY", "PROCEDURE", "memo", "Policy",
             "Document"}
Fillers == {".", "\n", "a\n"}
PadLengths == (DocMinChars - 1)..(DocMinChars + 1)

\* a keyword and the characters after it
DocTexts == {w \o Pad(f, n) : w \in DocWords, f \in Fillers, n \in PadLengths}

TwoRowTable == "|a|b|\n|c|d|\n"

\* what stands before the keyword of a long text
Prefixes == {"See: \n", Fenced("js", "x"), TwoRowTable, Fenced("js", "x") \o "\n" \o TwoRowTable}

MixedTexts == {pre \o "MEMO" \o Pad(".", DocMinChars) : pre \in Prefixes}

\* texts with several blocks and tables
OrderTexts ==
  {Fenced("a", "1") \o "x" \o Fenced("b", "2"),
   TwoRowTable \o "x\n|e|f|\n|g|h|\n",
   TwoRowTable \o Fenced("js", "x"),
   Fenced("b", "2") \o "\n" \o TwoRowTable \o Fenced("a", "1") \o "\n"}

\* long texts without a keyword, and with two
KeywordTexts ==
  {"NOTICE" \o Pad(".", DocMinChars),
   "Note:\n" \o Pad("a\n", DocMinChars),
   "MEMO" \o Pad(".", DocMinChars) \o "POLICY" \o Pad(".", DocMinChars)}

\* what stands after the characters that follow the keyword
Suffixes == {Fenced("js", "x"), "\n" \o TwoRowTable}

TrailedTexts == {"MEMO" \o Pad(".", DocMinChars) \o suf : suf \in Suffixes}

\* texts with bracketed lines, and with two tables one after the other
BracketTexts ==
  {"x\n[n]\n[n]\nx",
   "x\n\n\n\n [n] \n\n\n\nx",
   "x\n" \o TwoRowTable \o "\n|e|f|\n|g|h|\n\nx"}

\* tables with a separator line, with and without an empty cell inside a row
GridTexts ==
  {"|a|b|c|\n|-|-|-|\n|1|2|3|\n",
   "|a|b|c|\n|-|-|-|\n|1||3|\n",
   "| a | b | c |\n|---|---|---|\n| 1 |   | 3 |\n| 4 | 5 | 6 |\n"}

Texts ==
  PieceTexts(MaxPieces) \cup FencedTexts \cup DocTexts \cup MixedTexts \cup OrderTexts
    \cup KeywordTexts \cup TrailedTexts \cup BracketTexts \cup GridTexts

ExtractInit ==
  /\ AppInit
  /\ RunIdle
  /\ argument \in Texts
  /\ called = FALSE /\ working = "" /\ extracted = NoResult
  /\ formatted = NoTable

\* extractArtifacts(argument) is called and returns
Extract ==
  /\ ~called
  /\ called' = TRUE
  /\ working' = CleanUp(Passes(argument).remainingContent)
  /\ extracted' = extractArtifacts(argument)
  /\ UNCHANGED <<argument, formatted, appVars, runVars>>

\* formatArtifactContent(artifact) for the k-th artifact returned, a table:
\* the artifact is expanded and its markup generated
FormatTable(k) ==
  /\ called
  /\ formatted.artifact = 0
  /\ extracted.artifacts[k].type = "table"
  /\ formatted' = [artifact |-> k,
                   table |-> parseMarkdownTable(extracted.artifacts[k].content)]
  /\ UNCHANGED <<argument, called, working, extracted, appVars, runVars>>

ExtractNext ==
  \/ Extract
  \/ \E k \in 1..Len(extracted.artifacts) : FormatTable(k)

SpecExtract == ExtractInit /\ [][ExtractNext]_vars

---------------------------------------------------------------------------
(* Properties of the message list.                                         *)

Last(seq) == seq[Len(seq)]

\* the three fields a turn's end is said to freeze
Derived(msg) ==
  <<msg.content, msg.conversationalContent, msg.artifacts>>

\* C1: once "done" has been processed for a turn, no later step changes the
\* content, conversationalContent or artifacts of the bot message of that turn
\* (while the message is in the list).
C1_DoneFreezes ==
  [][(ended /\ Len(messages') >= Len(messages)) =>
        Derived(messages'[Len(messages)]) = Derived(Last(messages))]_vars

\* C2: right after createNewSession the message list is empty and the loading
\* flag is false, also when a turn was awaiting its "done"/"error".
C2_NewSessionEndsTurn ==
  [][(\E t \in Readings : CreateNewSession(t)) => (messages' = <<>> /\ ~isLoading')]_vars

\* C3: a send issued while the loading flag is true leaves the message list
\* unchanged and transmits nothing, and between two consecutive turn-ending
\* signals at most one outbound message is sent.
C3_OneTurnOpen ==
  /\ [](sentSinceEnd <= 1)
  /\ [][isLoading =>
          \A text \in Inputs, t \in Readings :
             SendMessage(text, t) =>
               (messages' = messages /\ sentSinceEnd' = sentSinceEnd /\ isLoading')]_vars

\* a send of "hi" was rejected after the send that opened the turn went out
C3_RejectedWhileLoading ==
  isLoading /\ isConnected /\ sentSinceEnd = 1 /\ inputMessage = "hi"

\* C4: after the non-empty fragments f1..fn received since a message was last
\* appended by something else (or the list was cleared), the list has exactly
\* one message more, an open streaming bot message whose content is f1+...+fn.
C4_ContentIsConcatenation ==
  sinceBreak.text # "" =>
    /\ Len(messages) = sinceBreak.len + 1
    /\ Last(messages).isBot
    /\ IsStreaming(Last(messages))
    /\ Last(messages).content = sinceBreak.text

\* two fragments were received for the turn a send opened
C4_TwoFragments ==
  sinceBreak = [text |-> "Hi |a|b|\n", len |-> 1] /\ Len(messages) = 2

\* the list is empty, or its last message is a user message or an error message
NoOpenStream(prev) ==
  prev = <<>> \/ ~Last(prev).isBot \/ IsError(Last(prev))

\* C5: a content fragment received when the list is empty or ends with a user
\* or an error message appends exactly one new streaming bot message whose
\* content is the fragment and whose artifacts and conversationalContent are
\* the extraction of the fragment, and changes no message already in the list.
C5_FragmentOpensMessage ==
  [][(NoOpenStream(messages) /\ fragCount' # fragCount) =>
       \A k \in 1..Len(sockets), data \in ContentEvents, t \in Readings :
          OnContent(k, data, t) =>
             /\ Len(messages') = Len(messages) + 1
             /\ SubSeq(messages', 1, Len(messages)) = messages
             /\ Last(messages').isBot
             /\ IsStreaming(Last(messages'))
             /\ Last(messages').content = data.content
             /\ Last(messages').artifacts = extractArtifacts(data.content).artifacts
             /\ Last(messages').conversationalContent =
                  extractArtifacts(data.content).conversationalContent]_vars

\* a fragment that arrived after an error message opened a message of its own
C5_OpenedAfterError ==
  /\ Len(messages) = 2
  /\ IsError(messages[1])
  /\ IsStreaming(messages[2]) /\ messages[2].content = "|a|b|\n"

\* C6: an "error" event appends exactly one new message with isError and
\* isBot set at the end of the list, changes no message already in the list
\* (the open streaming message included) and clears the loading flag.
C6_ErrorAppendsOnly ==
  [][\A k \in 1..Len(sockets), data \in ErrorEvents, t \in Readings :
       OnErrorEvent(k, data, t) =>
          /\ Len(messages') = Len(messages) + 1
          /\ SubSeq(messages', 1, Len(messages)) = messages
          /\ IsError(Last(messages'))
          /\ Last(messages').isBot
          /\ ~isLoading']_vars

\* an error arrived while a message was streaming
C6_ErrorAfterStream ==
  /\ Len(messages) = 2
  /\ IsStreaming(messages[1])
  /\ IsError(messages[2])
  /\ ~isLoading

\* the artifacts and the conversationalContent of a message created from
\* content fragments are those the extraction of its full content gives
Fresh(msg) ==
  IsStreaming(msg) =>
     LET ex == extractArtifacts(msg.content)
     IN  /\ msg.artifacts = ex.artifacts
         /\ msg.conversationalContent = ex.conversationalContent

\* C7: in every state, every bot message created from content fragments has
\* the artifacts and the conversationalContent that the extraction of its full
\* content gives: it is so at the start, and every step leaves it so for each
\* message that it adds or changes (the other messages are as they were).
C7_DerivedFieldsFresh ==
  /\ \A i \in 1..Len(messages) : Fresh(messages[i])
  /\ [][\A i \in 1..Len(messages') :
          (i > Len(messages) \/ messages'[i] # messages[i]) => Fresh(messages'[i])]_vars

\* a message built from two fragments that only together make a table
C7_TableFromTwoFragments ==
  \E i \in 1..Len(messages) :
     /\ messages[i].content = "|a|b|\n|a|b|\n"
     /\ HasType(messages[i].artifacts, "table")

\* C17: "done" and "error" each leave the loading flag false, "done" leaves
\* the message list as it is, and with the flag false a non-empty send on a
\* connected channel (the flag isConnected set and the socket of wsRef open)
\* is accepted: the user message is appended, the text is transmitted and the
\* next turn is open.
C17_SignalsEndTurn ==
  [][/\ \A k \in 1..Len(sockets) :
          OnDone(k) => (~isLoading' /\ messages' = messages)
     /\ \A k \in 1..Len(sockets), data \in ErrorEvents, t \in Readings :
          OnErrorEvent(k, data, t) => ~isLoading'
     /\ (~isLoading /\ isConnected /\ CanTransmit) =>
          \A text \in Inputs, t \in Readings :
             (Trim(text) # "" /\ SendMessage(text, t)) =>
                /\ messages' = Append(messages, UserMessage(text, t))
                /\ sentSinceEnd' = sentSinceEnd + 1
                /\ isLoading']_vars

\* a second send was accepted and transmitted: the first turn had ended
C17_SecondTurnAccepted ==
  /\ Len(messages) = 2
  /\ ~messages[1].isBot /\ ~messages[2].isBot
  /\ isLoading
  /\ sentSinceEnd = 1

\* the streaming messages that an error message follows: those that were in
\* flight when an "error" arrived
FrozenByError(prev) ==
  {i \in 1..(Len(prev) - 1) : IsStreaming(prev[i]) /\ IsError(prev[i + 1])}

\* C18: a content fragment that arrives when the last message is an error
\* message is appended neither to it nor to the streaming message before it but
\* opens a new bot message, and no step changes a streaming message that an
\* error message follows, or that error message, while they are in the list.
C18_ErrorFreezes ==
  [][/\ (messages # <<>> /\ IsError(Last(messages))) =>
          \A k \in 1..Len(sockets), data \in ContentEvents, t \in Readings :
             OnContent(k, data, t) =>
                /\ Len(messages') = Len(messages) + 1
                /\ SubSeq(messages', 1, Len(messages)) = messages
                /\ Last(messages').isBot /\ ~IsError(Last(messages'))
                /\ Last(messages').content = data.content
     /\ \A i \in FrozenByError(messages) :
          messages' # <<>> =>
             /\ Len(messages') >= i + 1
             /\ messages'[i] = messages[i]
             /\ messages'[i + 1] = messages[i + 1]]_vars

\* a fragment that arrived after the error opened a third message; the
\* message that was in flight is as the error found it
C18_NewMessageAfterError ==
  /\ Len(messages) = 3
  /\ IsStreaming(messages[1]) /\ messages[1].content = "Hi "
  /\ IsError(messages[2])
  /\ IsStreaming(messages[3]) /\ messages[3].content = "|a|b|\n"

\* the fields of a message that an append leaves alone
Kept == {"id", "timestamp", "agent", "isBot", "isStreaming"}

\* C19: when a fragment is appended to the open streaming message, the list
\* has the same number of messages in the same order, every message but the
\* last is unchanged, and the last has the same fields, with its id,
\* timestamp, agent, isBot and isStreaming unchanged, whatever agent and time
\* the event carries (a step that counts a content event while the last
\* message is open is such an append).
C19_AppendFrame ==
  [][(OpenStreaming(messages) /\ fragCount' # fragCount) =>
       /\ Len(messages') = Len(messages)
       /\ \A i \in 1..(Len(messages) - 1) : messages'[i] = messages[i]
       /\ DOMAIN Last(messages') = DOMAIN Last(messages)
       /\ \A f \in Kept : Last(messages')[f] = Last(messages)[f]
       /\ Last(messages').content # Last(messages).content]_vars

\* a fragment that came with another agent's name was appended to the message
\* of the Legal Assistant, after a user message
C19_AppendedFromOtherAgent ==
  /\ Len(messages) = 2
  /\ ~messages[1].isBot
  /\ messages[2].content = "Hi |a|b|\n"
  /\ messages[2].agent = "Legal Assistant"
  /\ messages[2].thinking = "Looking it up"

---------------------------------------------------------------------------
(* Properties of the stream runs.                                          *)

\* the script of the prose line, the blank line and the table was delivered
TableScriptDelivered == script = TableScript /\ restB = <<>>

C9_SplitIndependent ==
  (Len(runA) = 2 /\ Len(runB) = 2 /\ Last(runA).content = Last(runB).content) =>
     /\ Last(runA).artifacts = Last(runB).artifacts
     /\ Last(runA).conversationalContent = Last(runB).conversationalContent

\* both runs got the whole text, runA cut where the script is not, and the
\* text holds an artifact
C9_BothDelivered ==
  /\ cutsDiffer
  /\ restA = "" /\ restB = <<>>
  /\ Len(runA) = 2 /\ Len(runB) = 2
  /\ Len(Last(runA).artifacts) > 0

\* the positions of content the code pass extracts
RECURSIVE CodeSpans(_, _)
CodeSpans(content, from) ==
  LET m == codeBlockRegex(content, from)
  IN  IF m.index = 0 THEN {}
      ELSE {m.index..m.last} \cup CodeSpans(content, m.last + 1)

\* the positions of content the table pass extracts as tables
RECURSIVE TableSpans(_, _)
TableSpans(content, from) ==
  LET m == tableRegex(content, from)
      rows == TableRows(Trim(Slice(content, m.index, m.last)))
  IN  IF m.index = 0 THEN {}
      ELSE (IF Len(rows) >= 2 THEN {m.index..m.last} ELSE {})
              \cup TableSpans(content, m.last + 1)

\* the positions of content the document pass extracts
DocSpans(content) ==
  IF docRegex(content, 1) = 0 THEN {} ELSE {docRegex(content, 1)..Len(content)}

NoSharedPosition(spans1, spans2) ==
  \A a \in spans1, b \in spans2 : a \cap b = {}

NoRematch(content) ==
  /\ NoSharedPosition(CodeSpans(content, 1), TableSpans(content, 1))
  /\ NoSharedPosition(CodeSpans(content, 1), DocSpans(content))
  /\ NoSharedPosition(TableSpans(content, 1), DocSpans(content))

\* C10: no text of an extracted fenced code block is also extracted as a table
\* or as part of the document, and no text of an extracted table is part of
\* the document.
C10_NoRematch ==
  \A run \in {runA, runB} : \A i \in 1..Len(run) :
     IsStreaming(run[i]) => NoRematch(run[i].content)

---------------------------------------------------------------------------
(* Properties of the extraction runs.                                      *)

\* the fence that closes the block is the first fence after its opening line
OneBlock(tag, inner) ==
  IndexOf(Fenced(tag, inner), Fence, Len(tag) + 5) = Len(Fenced(tag, inner)) - 2

\* C11: for a text that is exactly one fenced block (fence, word-character tag
\* L or none, newline, inner text C without pipe or keyword, then the closing
\* fence as the first fence after the opening line), the extraction returns
\* exactly one artifact, of type code, language L (or "text"), content C
\* trimmed and title "L Block" (or "Code Block"), and the remainder is the
\* canned code sentence.
C11_CodeRoundTrip ==
  called =>
    \A tag \in Tags, inner \in Inners :
       (argument = Fenced(tag, inner) /\ OneBlock(tag, inner)) =>
          /\ extracted.artifacts =
               << [type |-> "code",
                   language |-> IF tag = "" THEN "text" ELSE tag,
                   content |-> Trim(inner),
                   title |-> (IF tag = "" THEN "Code" ELSE tag) \o " Block"] >>
          /\ extracted.conversationalContent = CodeSentence

\* the block of the example, and a block without a tag, were extracted
C11_BlockExtracted ==
  /\ called
  /\ argument \in {Fenced("js", "const x=1;\n"), Fenced("", "const x=1;\n")}
  /\ Len(extracted.artifacts) = 1
  /\ extracted.artifacts[1].content = "const x=1;"

\* the lines of a text: the pieces between newlines, a newline at the end of
\* the text ending the last line
LinesOf(s) ==
  IF s = "" THEN <<>>
  ELSE IF Char(s, Len(s)) = "\n" THEN Split(Slice(s, 1, Len(s) - 1), "\n")
  ELSE Split(s, "\n")

HasPipe(line) == Includes(line, "|")

\* the lines at which a maximal run of two or more pipe-containing lines starts
LongRuns(s) ==
  LET lines == LinesOf(s)
  IN  {i \in 1..(Len(lines) - 1) :
         /\ HasPipe(lines[i]) /\ HasPipe(lines[i + 1])
         /\ (i = 1 \/ ~HasPipe(lines[i - 1]))}

TablesOf(artifacts) == {k \in 1..Len(artifacts) : artifacts[k].type = "table"}

\* C12: a run of exactly one pipe-containing line is never extracted as a
\* table, and every maximal run of two or more consecutive pipe-containing
\* lines is extracted as one table artifact, wherever it stands (also at the
\* end of the text without a newline, and with lines that hold a single pipe
\* or do not start with one): for a text too short to hold a document, the
\* result has as many table artifacts as the text has such runs.
C12_PipeRunsAreTables ==
  (called /\ Len(argument) < DocMinChars) =>
     Cardinality(TablesOf(extracted.artifacts)) = Cardinality(LongRuns(argument))

DocsOf(artifacts) == {k \in 1..Len(artifacts) : artifacts[k].type = "document"}

\* C13: a text made of one document keyword (in any case) followed by exactly
\* DocMinChars - 1 characters yields no document artifact; a keyword followed
\* by DocMinChars characters or more, newlines included, yields one document
\* artifact, whose content is the text from the keyword to the end.
C13_DocumentThreshold ==
  (called /\ Len(argument) >= DocMinChars) =>
     \A w \in DocWords, f \in Fillers, n \in PadLengths :
        argument = w \o Pad(f, n) =>
           IF n < DocMinChars THEN DocsOf(extracted.artifacts) = {}
           ELSE /\ Cardinality(DocsOf(extracted.artifacts)) = 1
                /\ extracted.artifacts[Len(extracted.artifacts)] =
                     [type |-> "document", content |-> argument, title |-> "Legal Document"]

\* a keyword followed by exactly DocMinChars characters was extracted
C13_AtThreshold ==
  /\ called
  /\ argument = "MEMO" \o Pad("\n", DocMinChars)
  /\ DocsOf(extracted.artifacts) # {}

\* runs of three or more newlines collapsed to two, then trimmed
Normalize(s) == Trim(CollapseNewlines(s))

\* no fence, no run of two or more pipe-containing lines, too short for a
\* document
PlainText(s) ==
  /\ Len(s) < DocMinChars
  /\ ~Includes(s, Fence)
  /\ LongRuns(s) = {}

\* C14: for a text with no fence, no run of two or more pipe-containing lines
\* and no keyword followed by DocMinChars characters, the extraction returns no
\* artifact and the text itself, newline runs collapsed and trimmed, nothing
\* else removed; the empty text gives no artifact and the empty remainder.
C14_PlainTextKept ==
  (called /\ PlainText(argument)) =>
     extracted = [artifacts |-> <<>>, conversationalContent |-> Normalize(argument)]

CodesOf(artifacts) == {k \in 1..Len(artifacts) : artifacts[k].type = "code"}

\* C15: when the remainder is empty after the clean-up and an artifact was
\* produced, the remainder returned is the table sentence if there is a table
\* artifact, else the code sentence if there is a code artifact, else the
\* document sentence; a non-empty remainder is returned as it is; with no
\* artifact an empty remainder stays empty.
C15_FallbackByPriority ==
  called =>
     /\ (working = "" /\ extracted.artifacts # <<>>) =>
           extracted.conversationalContent =
              IF TablesOf(extracted.artifacts) # {} THEN TableSentence
              ELSE IF CodesOf(extracted.artifacts) # {} THEN CodeSentence
              ELSE DocumentSentence
     /\ working # "" => extracted.conversationalContent = working
     /\ (working = "" /\ extracted.artifacts = <<>>) =>
           extracted.conversationalContent = ""

\* nothing was left of a text with a code block and a table
C15_TableBeforeCode ==
  /\ called
  /\ working = ""
  /\ TablesOf(extracted.artifacts) # {} /\ CodesOf(extracted.artifacts) # {}
  /\ extracted.conversationalContent = TableSentence

\* the spans of a set, leftmost first
Ordered(spans) ==
  [j \in 1..Cardinality(spans) |->
     CHOOSE sp \in spans :
        Cardinality({other \in spans : MinOf(other, 0) < MinOf(sp, 0)}) = j - 1]

Rank(type) == CASE type = "code" -> 1 [] type = "table" -> 2 [] type = "document" -> 3

\* C16: in the list the extraction returns, the code artifacts come first,
\* then the table artifacts, then the document artifact; the code artifacts
\* are those of the fenced blocks of the text taken left to right, and the
\* table artifacts those of the tables of the text taken left to right.
C16_ArtifactOrder ==
  called =>
    LET arts == extracted.artifacts
        codes == Ordered(CodeSpans(argument, 1))
        tables == Ordered(TableSpans(argument, 1))
    IN  /\ \A i \in 1..Len(arts), j \in 1..Len(arts) :
              i < j => Rank(arts[i].type) <= Rank(arts[j].type)
        /\ Cardinality(CodesOf(arts)) = Len(codes)
        /\ \A j \in 1..Len(codes) :
              arts[j] = CodeArtifact(codeBlockRegexAt(argument, MinOf(codes[j], 0)))
        /\ Cardinality(TablesOf(arts)) = Len(tables)
        /\ \A j \in 1..Len(tables) :
              arts[Len(codes) + j] =
                 [type |-> "table", title |-> "Data Table",
                  content |-> Trim(Slice(argument, MinOf(tables[j], 0), MaxOf(tables[j], 0)))]

\* two fenced blocks with a table between them: both blocks, left to right,
\* then the table
C16_BlocksThenTable ==
  /\ called
  /\ argument = Fenced("b", "2") \o "\n" \o TwoRowTable \o Fenced("a", "1") \o "\n"
  /\ Len(extracted.artifacts) = 3
  /\ extracted.artifacts[1].language = "b"
  /\ extracted.artifacts[2].language = "a"
  /\ extracted.artifacts[3].type = "table"

\* one of the words ws, in any case, with at least DocMinChars characters
\* after it
FollowedByEnough(s, ws) ==
  \E w \in ws : \E i \in 1..(Len(s) - Len(w) - DocMinChars + 1) :
     ToUpperCase(Slice(s, i, i + Len(w) - 1)) = w

FiveWords == {"CONTRACT", "AGREEMENT", "MEMO", "POLICY", "PROCEDURE"}
SixWords == FiveWords \cup {"DOCUMENT"}

\* C21 as stated: a document artifact is produced only when the text holds
\* one of the five words CONTRACT, AGREEMENT, MEMO, POLICY, PROCEDURE (in any
\* case) followed by at least DocMinChars characters, and no call yields
\* more than one document artifact.
C21_FiveKeywords ==
  called =>
     /\ DocsOf(extracted.artifacts) # {} => FollowedByEnough(argument, FiveWords)
     /\ Cardinality(DocsOf(extracted.artifacts)) <= 1

\* C21 amended: a document artifact is produced exactly when the text holds
\* one of the six words CONTRACT, AGREEMENT, MEMO, POLICY, PROCEDURE, DOCUMENT
\* (in any case) followed by at least DocMinChars characters; a text without
\* such a word yields none, and no call yields more than one.
C21_SixKeywords ==
  called =>
     /\ DocsOf(extracted.artifacts) # {} <=> FollowedByEnough(argument, SixWords)
     /\ Cardinality(DocsOf(extracted.artifacts)) <= 1

\* the sixth word, in mixed case, made a document artifact
C21_DocumentWord ==
  /\ called
  /\ argument = "Document" \o Pad(".", DocMinChars)
  /\ Cardinality(DocsOf(extracted.artifacts)) = 1

\* where the first of the six words with enough characters after it starts;
\* 0 when there is none
KeywordStart(s) ==
  MinOf({i \in 1..Len(s) : \E w \in SixWords :
            /\ i + Len(w) - 1 + DocMinChars <= Len(s)
            /\ ToUpperCase(Slice(s, i, i + Len(w) - 1)) = w}, 0)

\* the working text of s after the code pass and the table pass
AfterBlocksAndTables(s) ==
  TablePass(s, 1, CodePass(s, 1, [artifacts |-> <<>>, remainingContent |-> s])).remainingContent

\* C22: whenever the extraction produces a document artifact, the span from
\* the keyword to the end of the text is replaced by the document marker: the
\* text left after the clean-up is that of what stood before the keyword
\* (blocks and tables replaced) followed by the marker, so it holds nothing
\* of the text from the keyword onward, also when a code block or a table
\* lies after the keyword.
C22_DocumentSpanReplaced ==
  (called /\ DocsOf(extracted.artifacts) # {}) =>
     LET before == Slice(argument, 1, KeywordStart(argument) - 1)
     IN  working = CleanUp(AfterBlocksAndTables(before) \o DocumentMarker)

\* a line that is, once trimmed, one bracketed placeholder
PlaceholderLine(line) ==
  /\ Len(Trim(line)) >= 2
  /\ Char(Trim(line), 1) = "["
  /\ Char(Trim(line), Len(Trim(line))) = "]"

HasPlaceholderLine(s) ==
  /\ Includes(s, "[")
  /\ \E k \in 1..Len(LinesOf(s)) : PlaceholderLine(LinesOf(s)[k])

\* C23: for every text, the conversationalContent returned has no white space
\* at its start or end, holds no run of three or more newlines, and holds no
\* line that is, once trimmed, a single bracketed placeholder.
C23_CleanOutput ==
  called =>
     /\ extracted.conversationalContent = Trim(extracted.conversationalContent)
     /\ ~Includes(extracted.conversationalContent, "\n\n\n")
     /\ ~HasPlaceholderLine(extracted.conversationalContent)

\* the cells of a row with the empty ones dropped at its two edges only
EdgeTrimmed(cells) ==
  SubSeq(cells, MinOf({i \in 1..Len(cells) : cells[i] # ""}, 1),
                MaxOf({i \in 1..Len(cells) : cells[i] # ""}, 0))

\* the lines of a table's content that are not blank
RowsOf(content) == FilterNonBlank(Split(Trim(content), "\n"))

\* C25: the table formatter splits each row on the pipe, trims each cell and
\* drops empty cells at the two edges of the row only: a cell inside the row
\* that is empty after trimming is kept, so every body row has the cells of
\* its positions between the pipes and as many as the header.
C25_InteriorCellsKept ==
  (formatted.artifact # 0 /\ formatted.table.isTable) =>
     LET rows == RowsOf(extracted.artifacts[formatted.artifact].content)
         table == formatted.table
     IN  /\ table.headers = EdgeTrimmed(TrimAll(Split(rows[1], "|")))
         /\ \A i \in 1..Len(table.data) :
               /\ table.data[i] = EdgeTrimmed(TrimAll(Split(rows[i + 2], "|")))
               /\ (argument \in GridTexts => Len(table.data[i]) = Len(table.headers))

---------------------------------------------------------------------------
(* The fence that is not yet closed, in the stream runs.                   *)

\* the text has a fence and no fence after it
Unterminated(content) ==
  /\ Includes(content, Fence)
  /\ IndexOf(content, Fence, IndexOf(content, Fence, 1) + 3) = 0

\* the text starts with a fence and a tag line, and a second fence closes it
Terminated(content) ==
  /\ StartsWithAt(content, 1, Fence \o "js\n")
  /\ IndexOf(content, Fence, 7) # 0

---------------------------------------------------------------------------
(* Properties of the sessions and their sockets.                           *)

\* a step in which a message event (content, error or done) changed the list
\* or the loading flag: the list got longer by a bot message or its last bot
\* message changed, or the loading flag was cleared
EventChange ==
  \/ isLoading /\ ~isLoading'
  \/ /\ messages' # messages
     /\ messages' # <<>>
     /\ Last(messages').isBot

\* C24: a new session tears down the channel before it: every socket other
\* than the current one is closing or closed, so it delivers no content, done
\* or error event, and every step in which such an event changes the message
\* list or the loading flag is taken while the current socket is open.
C24_PriorChannelTornDown ==
  /\ [](\A k \in 1..Len(sockets) : k # wsRef => sockets[k] \in {"CLOSING", "CLOSED"})
  /\ [][EventChange => CanTransmit]_vars

\* the first socket is still closing while the second session's socket has
\* delivered a fragment
C24_OldClosingNewStreaming ==
  /\ Len(sockets) >= 2
  /\ sockets[1] = "CLOSING"
  /\ wsRef = 2
  /\ sockets[2] = "OPEN"
  /\ OpenStreaming(messages)

\* C26: every accepted user send is transmitted: a step of sendMessage that
\* appends the user message and sets the loading flag also sends the outbound
\* object on the current session's socket.
C26_AcceptedSendTransmitted ==
  [][(Len(messages') = Len(messages) + 1 /\ ~Last(messages').isBot)
        => (isLoading' /\ CanTransmit /\ sentSinceEnd' = sentSinceEnd + 1)]_vars

\* C27: the connected flag tracks the socket of the current session: while
\* that socket is open (it has opened and has neither closed nor failed),
\* isConnected is true, whatever events the sockets of earlier sessions
\* deliver.
C27_FlagTracksCurrentSocket == CanTransmit => isConnected

\* no answer can arrive any more: no request is awaited on an open socket
NoAnswerLeft == \A k \in 1..Len(sockets) : ~(Awaited(k) /\ sockets[k] = "OPEN")

\* C28: no permanent lock-out of sending: the loading flag does not stay true
\* forever, also when the channel closed or failed while a turn was in
\* flight; whenever it is set, a state in which it is clear (and a non-empty
\* send can be accepted again) follows.
C28_NoLockOut == isLoading ~> ~isLoading

\* once the loading flag is set and no answer can arrive any more, every
\* step, a new session included, leaves it so
C28_LockedForGood ==
  [][(isLoading /\ NoAnswerLeft) => (isLoading' /\ NoAnswerLeft')]_vars

\* C29: the ids of the messages of the list are pairwise different in every
\* reachable state, also when two messages are created at the same reading of
\* the clock.
C29_IdsUnique ==
  \A i \in 1..Len(messages), j \in 1..Len(messages) :
     i # j => messages[i].id # messages[j].id

\* C30: in every reachable state, every bot message made from fragments has
\* hasArtifact true exactly when its artifact list is not empty, and a
\* conversationalContent that is not empty when the list is not; so the
\* substitute text is the displayed text of no message of the list.
C30_SubstituteNeverShown ==
  \A i \in 1..Len(messages) :
     /\ IsStreaming(messages[i]) =>
          /\ messages[i].hasArtifact <=> messages[i].artifacts # <<>>
          /\ messages[i].artifacts # <<>> => messages[i].conversationalContent # ""
     /\ DisplayedText(messages[i]) # SubstituteText

\* a message whose whole content went into a table artifact shows the canned
\* table sentence
C30_CannedSentenceShown ==
  /\ OpenStreaming(messages)
  /\ Last(messages).artifacts # <<>>
  /\ Last(messages).hasArtifact
  /\ DisplayedText(Last(messages)) = TableSentence

\* the same for one call of the extraction, on every text of the extraction
\* runs: artifacts come with a remainder that is not empty
ArtifactsComeWithText ==
  (called /\ extracted.artifacts # <<>>) => extracted.conversationalContent # ""

=============================================================================
